---------------------------- MODULE Spec2Model ----------------------------
(***************************************************************************)
(* A model of src/src/lib.rs: the CompactSize variable-length integer      *)
(* codec and the structures built from it (OutPoint, Script,               *)
(* TransactionInput, BitcoinTransaction).                                  *)
(*                                                                         *)
(* Representation of machine integers.  TLC's integers are 32 bits wide,   *)
(* so a u16/u32/u64/usize is a little-endian tuple of 16-bit limbs:        *)
(*   u16 = <<l0>>, u32 = <<l0, l1>>, u64 = <<l0, l1, l2, l3>>,             *)
(* standing for l0 + 2^16 l1 + 2^32 l2 + 2^48 l3.  A u8, a buffer length,  *)
(* a cursor and a consumed count are plain naturals (they never exceed the *)
(* length of a buffer).  A byte buffer (&[u8], Vec<u8>, [u8; 32]) is a     *)
(* sequence of naturals in 0..255; Rust index i is TLA+ index i + 1.       *)
(*                                                                         *)
(* A Result is a record: [tag |-> "Ok", value, consumed],                  *)
(* [tag |-> "Err", err] or, for a panic (the thread unwinds, no value is   *)
(* returned), [tag |-> "Panic", err].                                      *)
(*                                                                         *)
(* Build-dependent behaviour.  Integer overflow of usize additions panics  *)
(* when overflow checks are compiled in (debug profile) and wraps when     *)
(* they are not (release profile); usize is 32 or 64 bits wide according   *)
(* to the target.  Both are fields of the record `build`, chosen           *)
(* nondeterministically in Init.                                           *)
(***************************************************************************)
EXTENDS Integers, Sequences, FiniteSets

VARIABLES
    build,    \* [overflowChecks, usizeLimbs]: how the crate was compiled
    kind,     \* the structure whose to_bytes / from_bytes is exercised
    origin,   \* how `bytes` was made: "encoded", "truncated", "extended", "hostile"
    src,      \* the value whose to_bytes the buffer comes from (if any)
    bytes,    \* the buffer handed to from_bytes
    pc,       \* "idle", "loop" (inside BitcoinTransaction::from_bytes' for loop), "done"
    frame,    \* the locals of BitcoinTransaction::from_bytes while pc = "loop"
    iters,    \* calls of TransactionInput::from_bytes made by the current decode
    result    \* what from_bytes returned (pc = "done")

vars == <<build, kind, origin, src, bytes, pc, frame, iters, result>>

----------------------------------------------------------------------------
(* Machine integers as 16-bit limbs.                                       *)

LimbBase == 256 * 256

Zeros(n) == [i \in 1..n |-> 0]

\* A natural below 2^31 as a w-limb unsigned integer (`x as u64`, `n as usize`).
NatToLimbs(n, w) == [i \in 1..w |-> IF i = 1 THEN n % LimbBase
                                    ELSE IF i = 2 THEN n \div LimbBase ELSE 0]

\* Widening cast (`as u64` of a u16 or u32): zero extension.
Widen(l, w) == l \o Zeros(w - Len(l))

\* Narrowing cast (`as u16`, `as u32`, `as usize`): keeps the low limbs.
Narrow(l, w) == SubSeq(l, 1, w)

\* Unsigned comparison of two integers of the same width.
LimbsLt(a, b) == \E i \in 1..Len(a) : /\ a[i] < b[i]
                                      /\ \A j \in (i + 1)..Len(a) : a[j] = b[j]

LimbsLe(a, b) == a = b \/ LimbsLt(a, b)

\* The value of an integer known to be below 2^31, as a natural.
LimbsToNat(l) == l[1] + (IF Len(l) >= 2 THEN LimbBase * l[2] ELSE 0)

RECURSIVE AddFrom(_, _, _, _)
AddFrom(a, b, i, c) ==
    IF i > Len(a) THEN [val |-> <<>>, carry |-> c]
    ELSE LET s    == a[i] + b[i] + c
             rest == AddFrom(a, b, i + 1, s \div LimbBase)
         IN  [val |-> <<s % LimbBase>> \o rest.val, carry |-> rest.carry]

\* a + b on two integers of the same width: the wrapped sum and whether the
\* true sum does not fit the width.
AddLimbs(a, b) == LET r == AddFrom(a, b, 1, 0)
                  IN  [val |-> r.val, overflow |-> r.carry # 0]

\* uN::to_le_bytes: least significant byte first.
to_le_bytes(l) == [i \in 1..(2 * Len(l)) |->
                      IF i % 2 = 1 THEN l[(i + 1) \div 2] % 256
                                   ELSE l[i \div 2] \div 256]

\* from_le_bytes reading the most significant byte first.
from_be_bytes(bs) == [i \in 1..(Len(bs) \div 2) |->
                         bs[Len(bs) - 2 * i + 1] + 256 * bs[Len(bs) - 2 * i + 2]]

\* uN::from_le_bytes of an array of 2, 4 or 8 bytes.
from_le_bytes(bs) == [i \in 1..(Len(bs) \div 2) |->
                         bs[2 * i - 1] + 256 * bs[2 * i]]

----------------------------------------------------------------------------
(* Results.                                                                *)

Ok(v, n) == [tag |-> "Ok", value |-> v, consumed |-> n]

Err(e) == [tag |-> "Err", err |-> e]

Panic(why) == [tag |-> "Panic", err |-> why]

InsufficientBytes == "InsufficientBytes"

InvalidFormat == "InvalidFormat"

\* A range bytes[a..b] (Rust indices, b exclusive) is in bounds; slicing
\* panics otherwise.
SliceOk(bs, a, b) == a <= b /\ b <= Len(bs)

\* &bytes[a..b]
Slice(bs, a, b) == SubSeq(bs, a + 1, b)

----------------------------------------------------------------------------
(* CompactSize.                                                            *)

CompactSize_new(value) == [value |-> value]

\* CompactSize_to_bytes with the first threshold off by one (v <= 0xFD).
CompactSize_to_bytes_offbyone(self) ==
    LET v == self.value
    IN  IF LimbsLe(v, NatToLimbs(253, 4)) THEN <<v[1] % 256>>
        ELSE IF LimbsLe(v, <<65535, 0, 0, 0>>)
             THEN <<253>> \o to_le_bytes(Narrow(v, 1))
        ELSE IF LimbsLe(v, <<65535, 65535, 0, 0>>)
             THEN <<254>> \o to_le_bytes(Narrow(v, 2))
        ELSE <<255>> \o to_le_bytes(v)

CompactSize_to_bytes(self) ==
    LET v == self.value
    IN  IF LimbsLe(v, NatToLimbs(252, 4)) THEN <<v[1] % 256>>
        ELSE IF LimbsLe(v, <<65535, 0, 0, 0>>)
             THEN <<253>> \o to_le_bytes(Narrow(v, 1))
        ELSE IF LimbsLe(v, <<65535, 65535, 0, 0>>)
             THEN <<254>> \o to_le_bytes(Narrow(v, 2))
        ELSE <<255>> \o to_le_bytes(v)

\* CompactSize_from_bytes made canonical-only: a value that a shorter form
\* could carry is rejected.
CompactSize_from_bytes_canonical(bs) ==
    IF Len(bs) = 0 THEN Err(InsufficientBytes)
    ELSE IF bs[1] <= 252 THEN Ok(CompactSize_new(NatToLimbs(bs[1], 4)), 1)
    ELSE IF bs[1] = 253 THEN
        IF Len(bs) < 3 THEN Err(InsufficientBytes)
        ELSE IF bs[2] + 256 * bs[3] <= 252 THEN Err(InvalidFormat)
        ELSE Ok(CompactSize_new(Widen(from_le_bytes(<<bs[2], bs[3]>>), 4)), 3)
    ELSE IF bs[1] = 254 THEN
        IF Len(bs) < 5 THEN Err(InsufficientBytes)
        ELSE IF bs[4] = 0 /\ bs[5] = 0 THEN Err(InvalidFormat)
        ELSE Ok(CompactSize_new(Widen(from_le_bytes(Slice(bs, 1, 5)), 4)), 5)
    ELSE
        IF Len(bs) < 9 THEN Err(InsufficientBytes)
        ELSE IF \A i \in 6..9 : bs[i] = 0 THEN Err(InvalidFormat)
        ELSE Ok(CompactSize_new(from_le_bytes(Slice(bs, 1, 9))), 9)

CompactSize_from_bytes(bs) ==
    IF Len(bs) = 0 THEN Err(InsufficientBytes)
    ELSE IF bs[1] <= 252 THEN Ok(CompactSize_new(NatToLimbs(bs[1], 4)), 1)
    ELSE IF bs[1] = 253 THEN
        IF Len(bs) < 3 THEN Err(InsufficientBytes)
        ELSE Ok(CompactSize_new(Widen(from_le_bytes(<<bs[2], bs[3]>>), 4)), 3)
    ELSE IF bs[1] = 254 THEN
        IF Len(bs) < 5 THEN Err(InsufficientBytes)
        ELSE Ok(CompactSize_new(Widen(from_le_bytes(Slice(bs, 1, 5)), 4)), 5)
    ELSE
        IF Len(bs) < 9 THEN Err(InsufficientBytes)
        ELSE Ok(CompactSize_new(from_le_bytes(Slice(bs, 1, 9))), 9)

----------------------------------------------------------------------------
(* OutPoint.                                                               *)

Txid(arr) == arr

OutPoint_new(txid, vout) == [txid |-> Txid(txid), vout |-> vout]

\* OutPoint_to_bytes writing the identifier in display (reversed) byte order.
OutPoint_to_bytes_flipped(self) ==
    [i \in 1..32 |-> self.txid[33 - i]] \o to_le_bytes(self.vout)

OutPoint_to_bytes(self) == self.txid \o to_le_bytes(self.vout)

OutPoint_from_bytes(bs) ==
    IF Len(bs) < 36 THEN Err(InsufficientBytes)
    ELSE LET txid == Slice(bs, 0, 32)
             vout == from_le_bytes(Slice(bs, 32, 36))
         IN  Ok(OutPoint_new(txid, vout), 36)

----------------------------------------------------------------------------
(* Script.                                                                 *)

Script_new(bs) == [bytes |-> bs]

Script_to_bytes(self) ==
    CompactSize_to_bytes(CompactSize_new(NatToLimbs(Len(self.bytes), 4)))
        \o self.bytes

\* Script_from_bytes taking what is there when the body is cut short.
Script_from_bytes_lenient(bs) ==
    LET r == CompactSize_from_bytes(bs)
    IN  IF r.tag # "Ok" THEN r
        ELSE LET w         == build.usizeLimbs
                 len_bytes == r.consumed
                 total_len == Narrow(r.value.value, w)
                 sum       == AddLimbs(NatToLimbs(len_bytes, w), total_len)
             IN  IF sum.overflow /\ build.overflowChecks
                 THEN Panic("attempt to add with overflow")
                 ELSE IF LimbsLt(NatToLimbs(Len(bs), w), sum.val)
                 THEN Ok(Script_new(Slice(bs, len_bytes, Len(bs))), Len(bs))
                 ELSE LET end == LimbsToNat(sum.val)
                      IN  IF ~SliceOk(bs, len_bytes, end)
                          THEN Panic("slice index out of range")
                          ELSE Ok(Script_new(Slice(bs, len_bytes, end)), end)

\* `len_bytes + total_len` is a usize addition: it panics on overflow when
\* overflow checks are compiled in and wraps otherwise.  The slice
\* bytes[len_bytes..len_bytes + total_len] panics when out of range.
Script_from_bytes(bs) ==
    LET r == CompactSize_from_bytes(bs)
    IN  IF r.tag # "Ok" THEN r
        ELSE LET w         == build.usizeLimbs
                 len_bytes == r.consumed
                 total_len == Narrow(r.value.value, w)
                 sum       == AddLimbs(NatToLimbs(len_bytes, w), total_len)
             IN  IF sum.overflow /\ build.overflowChecks
                 THEN Panic("attempt to add with overflow")
                 ELSE IF LimbsLt(NatToLimbs(Len(bs), w), sum.val)
                 THEN Err(InsufficientBytes)
                 ELSE LET end == LimbsToNat(sum.val)
                      IN  IF ~SliceOk(bs, len_bytes, end)
                          THEN Panic("slice index out of range")
                          ELSE Ok(Script_new(Slice(bs, len_bytes, end)), end)

----------------------------------------------------------------------------
(* TransactionInput.                                                       *)

TransactionInput_new(previous_output, script_sig, sequence) ==
    [previous_output |-> previous_output, script_sig |-> script_sig,
     sequence |-> sequence]

TransactionInput_to_bytes(self) ==
    OutPoint_to_bytes(self.previous_output)
        \o Script_to_bytes(self.script_sig)
        \o to_le_bytes(self.sequence)

TransactionInput_from_bytes(bs) ==
    LET r1 == OutPoint_from_bytes(bs)
    IN  IF r1.tag # "Ok" THEN r1
        ELSE LET prev_len == r1.consumed
             IN  IF ~SliceOk(bs, prev_len, Len(bs))
                 THEN Panic("slice index out of range")
                 ELSE LET r2 == Script_from_bytes(Slice(bs, prev_len, Len(bs)))
                      IN  IF r2.tag # "Ok" THEN r2
                          ELSE LET at == prev_len + r2.consumed
                               IN  IF Len(bs) < at + 4
                                   THEN Err(InsufficientBytes)
                                   ELSE Ok(TransactionInput_new(
                                               r1.value, r2.value,
                                               from_le_bytes(Slice(bs, at, at + 4))),
                                           at + 4)

----------------------------------------------------------------------------
(* BitcoinTransaction.                                                     *)

BitcoinTransaction_new(ver, ins, lock_time) ==
    [version |-> ver, inputs |-> ins, lock_time |-> lock_time]

RECURSIVE ConcatInputs(_, _)
\* for input in &self.inputs { out.extend(input.to_bytes()) }, from index i on
ConcatInputs(ins, i) ==
    IF i > Len(ins) THEN <<>>
    ELSE TransactionInput_to_bytes(ins[i]) \o ConcatInputs(ins, i + 1)

BitcoinTransaction_to_bytes(self) ==
    to_le_bytes(self.version)
        \o CompactSize_to_bytes(CompactSize_new(NatToLimbs(Len(self.inputs), 4)))
        \o ConcatInputs(self.inputs, 1)
        \o to_le_bytes(self.lock_time)

\* BitcoinTransaction::from_bytes up to the for loop: the locals at loop
\* entry, or the error returned before it.
TxHeader(bs) ==
    IF Len(bs) < 4 THEN Err(InsufficientBytes)
    ELSE LET r == CompactSize_from_bytes(Slice(bs, 4, Len(bs)))
         IN  IF r.tag # "Ok" THEN r
             ELSE [tag         |-> "Loop",
                   version     |-> from_le_bytes(Slice(bs, 0, 4)),
                   input_count |-> r.value,
                   inputs      |-> <<>>,
                   cursor      |-> r.consumed + 4,
                   i           |-> 0]

\* The range 0..input_count.value still yields an element.
TxLoopCond(st) == LimbsLt(NatToLimbs(st.i, 4), st.input_count.value)

\* TxIter inserting each decoded input at the front of the list.
TxIter_prepend(bs, st) ==
    IF ~SliceOk(bs, st.cursor, Len(bs)) THEN Panic("slice index out of range")
    ELSE LET r == TransactionInput_from_bytes(Slice(bs, st.cursor, Len(bs)))
         IN  IF r.tag # "Ok" THEN r
             ELSE [st EXCEPT !.inputs = <<r.value>> \o @,
                             !.cursor = @ + r.consumed,
                             !.i      = @ + 1]

\* TxIter skipping an input that fails to decode instead of returning.
TxIter_skip(bs, st) ==
    IF ~SliceOk(bs, st.cursor, Len(bs)) THEN Panic("slice index out of range")
    ELSE LET r == TransactionInput_from_bytes(Slice(bs, st.cursor, Len(bs)))
         IN  IF r.tag # "Ok" THEN [st EXCEPT !.i = @ + 1]
             ELSE [st EXCEPT !.inputs = Append(@, r.value),
                             !.cursor = @ + r.consumed,
                             !.i      = @ + 1]

\* One iteration of the for loop: the locals after it, or the error the `?`
\* returns.
TxIter(bs, st) ==
    IF ~SliceOk(bs, st.cursor, Len(bs)) THEN Panic("slice index out of range")
    ELSE LET r == TransactionInput_from_bytes(Slice(bs, st.cursor, Len(bs)))
         IN  IF r.tag # "Ok" THEN r
             ELSE [st EXCEPT !.inputs = Append(@, r.value),
                             !.cursor = @ + r.consumed,
                             !.i      = @ + 1]

\* TxFinish reading lock_time from the final four bytes of the buffer.
TxFinish_final4(bs, st) ==
    IF Len(bs) < st.cursor + 4 THEN Err(InsufficientBytes)
    ELSE Ok(BitcoinTransaction_new(
                st.version, st.inputs,
                from_le_bytes(Slice(bs, Len(bs) - 4, Len(bs)))),
            Len(bs))

\* BitcoinTransaction::from_bytes after the for loop.
TxFinish(bs, st) ==
    IF Len(bs) < st.cursor + 4 THEN Err(InsufficientBytes)
    ELSE Ok(BitcoinTransaction_new(
                st.version, st.inputs,
                from_le_bytes(Slice(bs, st.cursor, st.cursor + 4))),
            st.cursor + 4)

RECURSIVE TxLoop(_, _)
TxLoop(bs, st) ==
    IF st.tag = "Loop" /\ TxLoopCond(st) THEN TxLoop(bs, TxIter(bs, st)) ELSE st

BitcoinTransaction_from_bytes(bs) ==
    LET st == TxLoop(bs, TxHeader(bs))
    IN  IF st.tag # "Loop" THEN st ELSE TxFinish(bs, st)

----------------------------------------------------------------------------
(* The values and buffers the operations are applied to.                   *)

\* Longest list of inputs of an encoded transaction.
MaxInputs == 2

\* Most bytes appended after an encoding.
MaxSuffixLen == 2

\* Most filler bytes following a hand-made prefix.
MaxFill == 5

\* Length of the long script: the least length whose prefix is three bytes wide.
LongScriptLen == 253

Fill(b, n) == [i \in 1..n |-> b]

SeqsUpTo(S, n) == UNION {[1..k -> S] : k \in 0..n}

\* 0, 1, 252, 253, 254, 255, 256, 65535, 65536, 2^32 - 1, 2^32, 2^32 + 2,
\* 2^64 - 8, 2^64 - 1
Magnitudes ==
    {NatToLimbs(n, 4) : n \in {0, 1, 252, 253, 254, 255, 256, 65535, 65536}}
        \cup {<<65535, 65535, 0, 0>>, <<0, 0, 1, 0>>, <<2, 0, 1, 0>>,
              <<65528, 65535, 65535, 65535>>, <<65535, 65535, 65535, 65535>>}

\* 0, 1, 0xDEADBEEF, 0xFFFFFFFF
U32s == {<<0, 0>>, <<1, 0>>, <<48879, 57005>>, <<65535, 65535>>}

Txids == {Fill(0, 32), [i \in 1..32 |-> i], Fill(255, 32)}

LongScript == [i \in 1..LongScriptLen |-> i % 256]

Scripts == {Script_new(<<>>), Script_new(<<81>>), Script_new(Fill(255, 4)),
            Script_new(LongScript)}

OutPoints == {OutPoint_new(t, v) : t \in Txids, v \in {<<0, 0>>, <<48879, 57005>>}}

Inputs == {TransactionInput_new(o, s, q) :
               o \in OutPoints, s \in Scripts, q \in {<<0, 0>>, <<65535, 65535>>}}

\* The inputs transactions are built from: a one-byte script and the long one.
TxInputs ==
    {TransactionInput_new(OutPoint_new(Fill(0, 32), <<0, 0>>),
                          Script_new(<<81>>), <<65535, 65535>>),
     TransactionInput_new(OutPoint_new([i \in 1..32 |-> i], <<48879, 57005>>),
                          Script_new(LongScript), <<0, 0>>)}

Transactions ==
    {BitcoinTransaction_new(vl[1], ins, vl[2]) :
        vl \in {<<<<1, 0>>, <<0, 0>>>>, <<<<2, 0>>, <<65535, 65535>>>>},
        ins \in SeqsUpTo(TxInputs, MaxInputs)}

Suffixes == SeqsUpTo({0, 255}, MaxSuffixLen) \ {<<>>}

\* Hand-made CompactSize prefixes: short ones, non-minimal ones, and ones
\* declaring far more than any buffer holds (1000, 2^32, 2^32 + 2, 2^64 - 8,
\* 2^64 - 1).
Prefixes ==
    {<<>>, <<3>>, <<252>>, <<253>>, <<253, 1>>, <<253, 1, 0>>, <<253, 232, 3>>,
     <<254>>, <<254, 1, 0, 0>>, <<254, 1, 0, 0, 0>>,
     <<255>> \o Fill(255, 7), <<255>> \o Fill(255, 8),
     <<255, 0, 0, 0, 0, 1, 0, 0, 0>>, <<255, 2, 0, 0, 0, 1, 0, 0, 0>>,
     <<255, 248>> \o Fill(255, 7)}

HostileBuffers == {p \o Fill(b, n) : p \in Prefixes, b \in {0, 255}, n \in 0..MaxFill}

\* What follows the well-formed inputs of a hand-made transaction.
HostileTails ==
    {<<>>, Fill(0, 4), Fill(0, 40),
     Fill(0, 36) \o <<255>> \o Fill(255, 8) \o Fill(0, MaxFill),
     Fill(0, 36) \o <<253, 232, 3>> \o Fill(0, MaxFill)}

HostileTransactions ==
    {to_le_bytes(<<1, 0>>) \o cp \o ConcatInputs(ins, 1) \o tl :
        cp \in {<<0>>, <<1>>, <<2>>, <<253>>, <<253, 1, 0>>, <<254, 2, 0, 0, 0>>,
                <<255>> \o Fill(255, 8)},
        ins \in SeqsUpTo(TxInputs, MaxInputs),
        tl \in HostileTails}

Kinds == {"CompactSize", "OutPoint", "Script", "TransactionInput",
          "BitcoinTransaction"}

None == [tag |-> "None"]

----------------------------------------------------------------------------
(* The state machine: a caller encodes a value or makes a buffer, possibly *)
(* cuts or extends it, and calls from_bytes on it.                         *)

Init ==
    /\ build \in [overflowChecks : BOOLEAN, usizeLimbs : {2, 4}]
    /\ kind = "none"
    /\ origin = "none"
    /\ src = None
    /\ bytes = <<>>
    /\ pc = "idle"
    /\ frame = None
    /\ iters = 0
    /\ result = None

\* The caller prepares buffer b for a call of k::from_bytes.
Fresh(k, o, v, b) ==
    /\ pc = "idle"
    /\ kind' = k
    /\ origin' = o
    /\ src' = v
    /\ bytes' = b
    /\ pc' = "idle"
    /\ frame' = None
    /\ iters' = 0
    /\ result' = None
    /\ UNCHANGED build

EncodeCompactSize ==
    /\ origin = "none"
    /\ \E m \in Magnitudes :
        LET v == CompactSize_new(m)
        IN  Fresh("CompactSize", "encoded", v, CompactSize_to_bytes(v))

EncodeOutPoint ==
    /\ origin = "none"
    /\ \E t \in Txids, n \in U32s :
        LET v == OutPoint_new(t, n)
        IN  Fresh("OutPoint", "encoded", v, OutPoint_to_bytes(v))

EncodeScript ==
    /\ origin = "none"
    /\ \E v \in Scripts : Fresh("Script", "encoded", v, Script_to_bytes(v))

EncodeTransactionInput ==
    /\ origin = "none"
    /\ \E v \in Inputs :
        Fresh("TransactionInput", "encoded", v, TransactionInput_to_bytes(v))

EncodeBitcoinTransaction ==
    /\ origin = "none"
    /\ \E v \in Transactions :
        Fresh("BitcoinTransaction", "encoded", v, BitcoinTransaction_to_bytes(v))

\* The last k bytes of an encoding are lost.
Truncate ==
    /\ origin = "encoded"
    /\ \E k \in 1..Len(bytes) :
           Fresh(kind, "truncated", src, SubSeq(bytes, 1, Len(bytes) - k))

\* Bytes follow an encoding in the buffer.
Extend ==
    /\ origin = "encoded"
    /\ \E s \in Suffixes : Fresh(kind, "extended", src, bytes \o s)

\* A buffer that no to_bytes produced.
Hostile ==
    /\ origin = "none"
    /\ \/ \E k \in Kinds \ {"BitcoinTransaction"}, b \in HostileBuffers :
              Fresh(k, "hostile", None,
                    IF k = "TransactionInput" THEN Fill(0, 36) \o b ELSE b)
       \/ \E b \in HostileTransactions :
              Fresh("BitcoinTransaction", "hostile", None, b)

\* The caller is done with the result and the buffer.
Drop ==
    /\ pc = "done"
    /\ kind' = "none"
    /\ origin' = "none"
    /\ src' = None
    /\ bytes' = <<>>
    /\ pc' = "idle"
    /\ frame' = None
    /\ iters' = 0
    /\ result' = None
    /\ UNCHANGED build

\* A call of from_bytes returns r.
Return(r) ==
    /\ pc' = "done"
    /\ result' = r
    /\ frame' = None
    /\ UNCHANGED <<build, kind, origin, src, bytes>>

DecodeCompactSize ==
    /\ pc = "idle" /\ kind = "CompactSize"
    /\ Return(CompactSize_from_bytes(bytes))
    /\ UNCHANGED iters

DecodeOutPoint ==
    /\ pc = "idle" /\ kind = "OutPoint"
    /\ Return(OutPoint_from_bytes(bytes))
    /\ UNCHANGED iters

DecodeScript ==
    /\ pc = "idle" /\ kind = "Script"
    /\ Return(Script_from_bytes(bytes))
    /\ UNCHANGED iters

DecodeTransactionInput ==
    /\ pc = "idle" /\ kind = "TransactionInput"
    /\ Return(TransactionInput_from_bytes(bytes))
    /\ UNCHANGED iters

\* BitcoinTransaction::from_bytes, lines 270-279: up to the for loop.
TxBegin ==
    /\ pc = "idle" /\ kind = "BitcoinTransaction"
    /\ LET h == TxHeader(bytes)
       IN  IF h.tag = "Loop"
           THEN /\ pc' = "loop"
                /\ frame' = h
                /\ UNCHANGED <<build, kind, origin, src, bytes, result>>
           ELSE Return(h)
    /\ UNCHANGED iters

\* Lines 280-284: one iteration of the for loop.
TxIterate ==
    /\ pc = "loop" /\ TxLoopCond(frame)
    /\ iters' = iters + 1
    /\ LET r == TxIter(bytes, frame)
       IN  IF r.tag = "Loop"
           THEN /\ frame' = r
                /\ UNCHANGED <<build, kind, origin, src, bytes, pc, result>>
           ELSE Return(r)

\* Lines 286-295: the range is exhausted; lock_time and the result.
TxEnd ==
    /\ pc = "loop" /\ ~TxLoopCond(frame)
    /\ Return(TxFinish(bytes, frame))
    /\ UNCHANGED iters

Next ==
    \/ EncodeCompactSize
    \/ EncodeOutPoint
    \/ EncodeScript
    \/ EncodeTransactionInput
    \/ EncodeBitcoinTransaction
    \/ Truncate
    \/ Extend
    \/ Hostile
    \/ DecodeCompactSize
    \/ DecodeOutPoint
    \/ DecodeScript
    \/ DecodeTransactionInput
    \/ TxBegin
    \/ TxIterate
    \/ TxEnd
    \/ Drop

Spec == Init /\ [][Next]_vars

TypeOK ==
    /\ pc \in {"idle", "loop", "done"}
    /\ \A i \in 1..Len(bytes) : bytes[i] \in 0..255
    /\ (pc = "done") = (result.tag # "None")
    /\ (pc = "loop") = (frame.tag = "Loop")

\* The step-by-step decode of a transaction and the function agree.
StepsAgree ==
    (kind = "BitcoinTransaction" /\ pc = "done")
        => result = BitcoinTransaction_from_bytes(bytes)

----------------------------------------------------------------------------
(* Properties of CompactSize.                                              *)

\* The number of 16-bit limbs a magnitude needs (0 for magnitude 0).
LimbsUsed(v) == IF \A i \in 1..Len(v) : v[i] = 0 THEN 0
                ELSE CHOOSE i \in 1..Len(v) :
                         v[i] # 0 /\ \A j \in (i + 1)..Len(v) : v[j] = 0

\* The width table of the format: bytes of the minimal encoding of v.
MinimalWidth(v) ==
    IF LimbsUsed(v) = 0 \/ (LimbsUsed(v) = 1 /\ v[1] <= 252) THEN 1
    ELSE IF LimbsUsed(v) = 1 THEN 3
    ELSE IF LimbsUsed(v) = 2 THEN 5
    ELSE 9

\* Bytes bs[at + 1 .. at + 2 n] are the n low limbs of v, least significant
\* byte first, and v has no higher limb set.
CarriesLE(bs, at, n, v) ==
    /\ Len(bs) >= at + 2 * n
    /\ \A i \in 1..Len(v) :
           IF i <= n
           THEN /\ bs[at + 2 * i - 1] \in 0..255
                /\ bs[at + 2 * i] \in 0..255
                /\ bs[at + 2 * i - 1] + 256 * bs[at + 2 * i] = v[i]
           ELSE v[i] = 0

\* bs, from offset at on, starts with the minimal CompactSize encoding of v.
MinimalAt(bs, at, v) ==
    LET w == MinimalWidth(v)
    IN  /\ Len(bs) >= at + w
        /\ IF w = 1 THEN bs[at + 1] = v[1]
           ELSE /\ bs[at + 1] = (IF w = 3 THEN 253 ELSE IF w = 5 THEN 254 ELSE 255)
                /\ CarriesLE(bs, at + 1, (w - 1) \div 2, v)

\* C1: CompactSize::to_bytes produces, for every magnitude, exactly the
\* minimal-width encoding: the magnitude itself in one byte up to 252, else
\* 0xFD / 0xFE / 0xFF followed by the magnitude in 2 / 4 / 8 little-endian
\* bytes, the narrowest of these that holds it; it produces nothing else and
\* never fails.
C1_MinimalEncoding ==
    (kind = "CompactSize" /\ origin = "encoded")
        => /\ Len(bytes) = MinimalWidth(src.value)
           /\ MinimalAt(bytes, 0, src.value)

C1_Witness ==
    /\ kind = "CompactSize" /\ origin = "encoded"
    /\ src.value = <<0, 1, 0, 0>>
    /\ bytes = <<254, 0, 0, 1, 0>>

\* The width the first byte of a buffer declares.
DeclaredWidth(b) == IF b <= 252 THEN 1 ELSE IF b = 253 THEN 3
                    ELSE IF b = 254 THEN 5 ELSE 9

\* C2: CompactSize::from_bytes decodes by the width its first byte declares:
\* empty buffer or a buffer shorter than the declared width fails with
\* InsufficientBytes; otherwise the value is the first byte (<= 0xFC) or the
\* little-endian integer in the following 2 / 4 / 8 bytes and consumed is the
\* declared width, whether or not the encoding is minimal; [0xFD, 1, 0]
\* decodes to 1 with consumed = 3.
C2_DecodeByDeclaredWidth ==
    (kind = "CompactSize" /\ pc = "done")
        => /\ IF Len(bytes) = 0 \/ Len(bytes) < DeclaredWidth(bytes[1])
              THEN result = Err(InsufficientBytes)
              ELSE LET w == DeclaredWidth(bytes[1])
                   IN  /\ result.tag = "Ok"
                       /\ result.consumed = w
                       /\ Len(result.value.value) = 4
                       /\ IF w = 1
                          THEN result.value.value = <<bytes[1], 0, 0, 0>>
                          ELSE CarriesLE(bytes, 1, (w - 1) \div 2,
                                         result.value.value)
           /\ bytes = <<253, 1, 0>>
                  => result = Ok(CompactSize_new(<<1, 0, 0, 0>>), 3)

C2_Witness ==
    /\ kind = "CompactSize" /\ pc = "done"
    /\ bytes = <<253, 1, 0>>
    /\ result.tag = "Ok" /\ result.consumed = 3

\* C3: decoding the encoding of a magnitude gives the magnitude back and
\* consumes the whole encoding, whose length is 1, 3, 5 or 9 by the width
\* table.
C3_VarIntRoundTrip ==
    (kind = "CompactSize" /\ origin = "encoded" /\ pc = "done")
        => /\ result = Ok(src, Len(bytes))
           /\ result.consumed = MinimalWidth(src.value)

C3_Witness ==
    /\ kind = "CompactSize" /\ origin = "encoded" /\ pc = "done"
    /\ src.value = <<65535, 65535, 65535, 65535>>
    /\ result.tag = "Ok" /\ result.consumed = 9

----------------------------------------------------------------------------
(* Properties of the composite structures.                                 *)

\* The buffer starts with a CompactSize prefix declaring more bytes than
\* follow it.
DeclaresTooMuch(bs) ==
    LET r == CompactSize_from_bytes(bs)
    IN  /\ r.tag = "Ok"
        /\ LimbsLt(NatToLimbs(Len(bs) - r.consumed, 4), r.value.value)

\* C4: Script::from_bytes fails with InsufficientBytes, without panicking,
\* whenever the declared length exceeds the bytes that follow the prefix, for
\* every declared length up to 2^64 - 1.
C4_OversizedScriptRejected ==
    (kind = "Script" /\ pc = "done" /\ DeclaresTooMuch(bytes))
        => result = Err(InsufficientBytes)

\* C5: for every structure, decoding an encoding that lost its last k >= 1
\* bytes yields InsufficientBytes: no panic and no successful parse.
C5_TruncationSafety ==
    (origin = "truncated" /\ pc = "done") => result = Err(InsufficientBytes)

C5_Witness ==
    /\ kind = "BitcoinTransaction" /\ origin = "truncated" /\ pc = "done"
    /\ Len(src.inputs) = 2
    /\ iters = 2
    /\ result = Err(InsufficientBytes)

\* C6: decoding the encoding of a transaction gives an equal transaction
\* (same inputs, same order) and consumes the whole encoding; version 1, no
\* inputs, lock_time 0 encodes as 01 00 00 00 00 00 00 00 00.
C6_TransactionRoundTrip ==
    (kind = "BitcoinTransaction" /\ origin = "encoded")
        => /\ pc = "done" => result = Ok(src, Len(bytes))
           /\ src = BitcoinTransaction_new(<<1, 0>>, <<>>, <<0, 0>>)
                  => bytes = <<1, 0, 0, 0, 0, 0, 0, 0, 0>>

C6_Witness ==
    /\ kind = "BitcoinTransaction" /\ origin = "encoded" /\ pc = "done"
    /\ Len(src.inputs) = 2
    /\ src.inputs[1] # src.inputs[2]
    /\ result.tag = "Ok"
    /\ result.consumed = Len(bytes)

\* Bytes bs[at + 1 .. at + Len(body)] are body.
Verbatim(bs, at, body) ==
    /\ Len(bs) >= at + Len(body)
    /\ \A i \in 1..Len(body) : bs[at + i] = body[i]

\* Bytes of the wire form of an input.
InputSize(inp) ==
    40 + MinimalWidth(NatToLimbs(Len(inp.script_sig.bytes), 4))
       + Len(inp.script_sig.bytes)

\* bs holds the wire form of inp from offset at on:
\* txid(32) || vout(4) || varint(script_len) || script_bytes || sequence(4).
InputLaidOutAt(bs, at, inp) ==
    LET n == Len(inp.script_sig.bytes)
        w == MinimalWidth(NatToLimbs(n, 4))
    IN  /\ Verbatim(bs, at, inp.previous_output.txid)
        /\ CarriesLE(bs, at + 32, 2, inp.previous_output.vout)
        /\ MinimalAt(bs, at + 36, NatToLimbs(n, 4))
        /\ Verbatim(bs, at + 36 + w, inp.script_sig.bytes)
        /\ CarriesLE(bs, at + 36 + w + n, 2, inp.sequence)

RECURSIVE SizeOfInputs(_, _)
\* Bytes of the wire forms of the first k inputs of ins.
SizeOfInputs(ins, k) ==
    IF k = 0 THEN 0 ELSE SizeOfInputs(ins, k - 1) + InputSize(ins[k])

\* C7: the encoding of a transaction is version(4, LE) || varint(count) ||
\* the inputs in list order || lock_time(4, LE), each input being txid(32,
\* verbatim) || vout(4, LE) || varint(script_len) || script bytes || sequence
\* (4, LE); its length is 8 + width(count) + the sum of 40 + width(script_len)
\* + script_len over the inputs.
C7_WireLayout ==
    /\ (kind = "BitcoinTransaction" /\ origin = "encoded")
        => LET n  == Len(src.inputs)
               wc == MinimalWidth(NatToLimbs(n, 4))
           IN  /\ Len(bytes) = 8 + wc + SizeOfInputs(src.inputs, n)
               /\ CarriesLE(bytes, 0, 2, src.version)
               /\ MinimalAt(bytes, 4, NatToLimbs(n, 4))
               /\ \A k \in 1..n :
                      InputLaidOutAt(bytes, 4 + wc + SizeOfInputs(src.inputs, k - 1),
                                     src.inputs[k])
               /\ CarriesLE(bytes, Len(bytes) - 4, 2, src.lock_time)
    /\ (kind = "TransactionInput" /\ origin = "encoded")
        => /\ Len(bytes) = InputSize(src)
           /\ InputLaidOutAt(bytes, 0, src)

C7_Witness ==
    /\ kind = "BitcoinTransaction" /\ origin = "encoded"
    /\ Len(src.inputs) = 2
    /\ Len(src.inputs[1].script_sig.bytes) = 1
    /\ Len(src.inputs[2].script_sig.bytes) = LongScriptLen
    /\ Len(bytes) = 8 + 1 + (40 + 1 + 1) + (40 + 3 + LongScriptLen)

\* C8: BitcoinTransaction::from_bytes is all-or-nothing: it returns either
\* Ok, with exactly as many inputs as the count prefix declares, every
\* iteration having succeeded, and consumed within the buffer, or
\* Err(InsufficientBytes); nothing else (no panic, no InvalidFormat).
C8_AllOrNothing ==
    (kind = "BitcoinTransaction" /\ pc = "done")
        => \/ result = Err(InsufficientBytes)
           \/ /\ result.tag = "Ok"
              /\ Len(result.value.inputs) = iters
              /\ CompactSize_from_bytes(Slice(bytes, 4, Len(bytes))).value.value
                     = NatToLimbs(iters, 4)
              /\ result.consumed <= Len(bytes)

\* C9: a decode of a buffer of n bytes makes at most floor((n - 5) / 41) + 1
\* calls of TransactionInput::from_bytes whatever count the prefix declares;
\* inside the loop every completed iteration has advanced the cursor by at
\* least 41 bytes and the cursor is within the buffer.
C9_BoundedIterations ==
    kind = "BitcoinTransaction"
        => /\ iters <= ((Len(bytes) - 5) \div 41) + 1
           /\ pc = "loop" => /\ frame.i = iters
                             /\ frame.cursor >= 5 + 41 * frame.i
                             /\ frame.cursor <= Len(bytes)

C9_Witness ==
    /\ kind = "BitcoinTransaction" /\ pc = "done"
    /\ Len(bytes) >= 13
    /\ \A i \in 5..13 : bytes[i] = 255
    /\ iters = 3
    /\ result = Err(InsufficientBytes)

\* from_bytes of structure k.
from_bytes(k, bs) ==
    CASE k = "CompactSize"        -> CompactSize_from_bytes(bs)
      [] k = "OutPoint"           -> OutPoint_from_bytes(bs)
      [] k = "Script"             -> Script_from_bytes(bs)
      [] k = "TransactionInput"   -> TransactionInput_from_bytes(bs)
      [] k = "BitcoinTransaction" -> BitcoinTransaction_from_bytes(bs)

\* C10: a successful from_bytes consumed n bytes with 1 <= n <= len, and the
\* result depends only on those: the first n bytes followed by anything else
\* (or nothing) decode to the same value with the same n.
C10_PrefixOnly ==
    (pc = "done" /\ result.tag = "Ok")
        => /\ 1 <= result.consumed
           /\ result.consumed <= Len(bytes)
           /\ \A s \in Suffixes \cup {<<>>} :
                  from_bytes(kind, SubSeq(bytes, 1, result.consumed) \o s) = result

C10_Witness ==
    /\ kind = "BitcoinTransaction" /\ origin = "extended" /\ pc = "done"
    /\ Len(src.inputs) = 1
    /\ result.tag = "Ok"
    /\ result.consumed = Len(bytes) - MaxSuffixLen

=============================================================================
